---------------------------- MODULE Spec2Model ----------------------------
(***************************************************************************)
(* Model of the Kampung Spirit dashboard (src/D01.py).                     *)
(*                                                                         *)
(* The program is one Dash callback, update_dashboard, that on every       *)
(* change of the sheet selector or of the date range re-reads one sheet of *)
(* the workbook (load_sheet), geocodes the postal code of every row        *)
(* (get_lat_lon), optionally filters the rows by Event Date, and builds    *)
(* the statistic cards, the charts, the map layer and the column options.  *)
(*                                                                         *)
(* An invocation is not one step: it blocks on the reading of the file    *)
(* (line 29) and on one HTTP request per row (line 19); the file may be    *)
(* rewritten and the service may answer differently in between.  The       *)
(* server runs invocations on threads, so invocations may                  *)
(* overlap; each works on its own locals.  The steps of an invocation are  *)
(* its start, the reading of the sheet up to the first request, and each   *)
(* response up to the next request or, after the last one, up to the       *)
(* return.  A request may also fail, which ends the invocation.            *)
(*                                                                         *)
(* Encoding                                                                *)
(*   - an optional value (Python None, pandas NaN / NaT) is a sequence of  *)
(*     length 0, a present value v is <<v>>;                               *)
(*   - a timestamp is a day number 1..MaxDate;                             *)
(*   - an Event Date cell of the spreadsheet is a record: a datetime cell, *)
(*     a text cell that does not parse as a date, or a blank cell; a date  *)
(*     of the date picker is an ISO date string, a record of its own;      *)
(*   - a Postal Code cell is a number, and the geocoding service is keyed  *)
(*     by the decimal string str() makes of it;                            *)
(*   - the answers of the survey columns other than Event Date, Postal     *)
(*     Code and Attendance carry no per-row value: only the presence of    *)
(*     the column is modelled, and a chart is represented by the frame it  *)
(*     is built from;                                                      *)
(*   - a coordinate of the geocoding response is a string, a record around *)
(*     the number it spells, which float() returns.                        *)
(***************************************************************************)
EXTENDS Integers, Sequences, FiniteSets

\* Longest sheet of the workbook, in rows.
MaxRows == 2

\* Latest day number of an Event Date cell and of the date picker.
MaxDate == 3

\* Most columns a sheet of SpecColumns lacks.
MaxMissing == 1

VARIABLES
    workbook,   \* KS.xlsx as it is now: sheet name -> [columns, rows]
    xls,        \* the ExcelFile opened at import (line 12): KS.xlsx as it was
    geo,        \* the geocoding service: searchVal -> the answer it gives now
    debug,      \* whether Dash runs with debug=True (line 198)
    inv,        \* server thread -> its invocation of update_dashboard: where
                \* it is, its locals, the requests it issued with their
                \* answers and, at the end, what it returned or raised
    seen        \* the observer: per thread, the sheet as the file had it when
                \* the invocation read it, and what the invocation follows

vars == <<workbook, xls, geo, debug, inv, seen>>

None == <<>>
NaN == <<>>
NaT == <<>>

Some(v) == <<v>>

Dates == 1 .. MaxDate

\* "YYYY-MM-DD", as the date picker gives it.
IsoDate(d) == [kind |-> "isodate", day |-> d]

\* The values of start_date and of end_date.
OptDates == {None} \cup {IsoDate(d) : d \in Dates}

-----------------------------------------------------------------------------
(* The spreadsheet *)

\* The columns update_dashboard and load_sheet read, in the order of the
\* first read of each.
Columns ==
    << "Event Date",
       "Postal Code",
       "Attendance",
       "Age",
       "How many new neighbours met?",
       "How much better do you know your neighbours?",
       "Rating of the whole event.",
       "How likely are you to promote this event to your friend?",
       "Gender",
       "Race",
       "Marketing" >>

\* The line of src/D01.py that first reads each column, and what it raises
\* when the column is missing.
FirstRead ==
    << [line |-> 32,  exc |-> "KeyError"],
       [line |-> 34,  exc |-> "KeyError"],
       [line |-> 150, exc |-> "KeyError"],
       [line |-> 161, exc |-> "KeyError"],
       [line |-> 162, exc |-> "KeyError"],
       [line |-> 163, exc |-> "KeyError"],
       [line |-> 164, exc |-> "KeyError"],
       [line |-> 165, exc |-> "KeyError"],
       [line |-> 170, exc |-> "ValueError"],
       [line |-> 171, exc |-> "ValueError"],
       [line |-> 176, exc |-> "ValueError"] >>

Range(s) == {s[i] : i \in DOMAIN s}

DateCell(d) == [kind |-> "datetime", day |-> d]
TextCell == [kind |-> "text", day |-> 0]
BlankCell == [kind |-> "blank", day |-> 0]

PostalCodes == {18956, 560123}

\* Variant of to_datetime: a cell that is no date becomes a default date
\* instead of NaT.
to_datetime_epoch(cell) ==
    IF cell.kind \in {"datetime", "isodate"} THEN Some(cell.day) ELSE Some(0)

\* pd.to_datetime(value, errors='coerce'): a datetime cell and an ISO date
\* string give their timestamp, anything else NaT.
to_datetime(cell) ==
    IF cell.kind \in {"datetime", "isodate"} THEN Some(cell.day) ELSE NaT

-----------------------------------------------------------------------------
(* The geocoding service *)

\* A decimal string of the JSON response.
Decimal(n) == [text |-> n]

Coord(lat, lon) == [LATITUDE |-> Decimal(lat), LONGITUDE |-> Decimal(lon)]

Responses ==
    { [found |-> 0, results |-> <<>>],
      [found |-> 1, results |-> <<Coord(11, 21)>>],
      [found |-> 2, results |-> <<Coord(12, 22), Coord(13, 23)>>] }

\* What else a request can end in: an exception of requests.get or of
\* .json() (line 19), and a JSON body without "found", which line 21 looks
\* up.
NoResponse == [raised |-> "RequestException"]

ErrorBody == [error |-> "unavailable"]

float(s) == s.text

Digit == <<"0", "1", "2", "3", "4", "5", "6", "7", "8", "9">>

\* str(postal_code) inside the request URL: the decimal digits of the number.
RECURSIVE str(_)
str(n) ==
    IF n < 10 THEN Digit[n + 1]
    ELSE str(n \div 10) \o Digit[(n % 10) + 1]

Raise(line, exc) == [line |-> line, exc |-> exc]

NoError == [line |-> 0, exc |-> ""]

\* Variant of get_lat_lon: the last result of the response instead of the
\* first.
get_lat_lon_last(postal_code) ==
    LET response == geo[str(postal_code)]
    IN  IF "raised" \in DOMAIN response
        THEN [error |-> Raise(19, response.raised), value |-> << None, None >>]
        ELSE IF "found" \notin DOMAIN response
        THEN [error |-> Raise(21, "KeyError"), value |-> << None, None >>]
        ELSE IF response.found > 0
        THEN [error |-> NoError,
              value |-> << Some(float(response.results[response.found].LATITUDE)),
                           Some(float(response.results[response.found].LONGITUDE)) >>]
        ELSE [error |-> NoError, value |-> << None, None >>]

\* get_lat_lon: one GET per call, nothing caught; the first result when any
\* was found.
get_lat_lon(postal_code) ==
    LET response == geo[str(postal_code)]
    IN  IF "raised" \in DOMAIN response
        THEN [error |-> Raise(19, response.raised), value |-> << None, None >>]
        ELSE IF "found" \notin DOMAIN response
        THEN [error |-> Raise(21, "KeyError"), value |-> << None, None >>]
        ELSE IF response.found > 0
        THEN [error |-> NoError,
              value |-> << Some(float(response.results[1].LATITUDE)),
                           Some(float(response.results[1].LONGITUDE)) >>]
        ELSE [error |-> NoError, value |-> << None, None >>]

-----------------------------------------------------------------------------
(* load_sheet *)

EmptyFrame == [columns |-> <<>>, rows |-> <<>>, dtype |-> "object"]

Has(frame, column) == column \in Range(frame.columns)

\* pd.read_excel infers the type of the Attendance column: a column with a
\* blank cell is float64 (the blank is NaN), a column of integers is int64.
AttendanceDtype(rows) ==
    IF \E i \in DOMAIN rows : rows[i].Attendance = NaN
    THEN "float64"
    ELSE "int64"

\* Variant of read_excel: the sheet is parsed from the ExcelFile opened at
\* import instead of from the file.
read_excel_xls(sheet_name) == xls[sheet_name]

\* pd.read_excel(excel_file, sheet_name=sheet_name): the file is read again
\* on every call.
read_excel(sheet_name) == workbook[sheet_name]

\* Variant of Exchanges: a postal code already looked up for an earlier row
\* of the sheet is not requested again.
Exchanges_cached(rows, i) ==
    IF \E j \in 1 .. (i - 1) : rows[j].PostalCode = rows[i].PostalCode
    THEN <<>>
    ELSE << [ searchVal |-> str(rows[i].PostalCode),
              response  |-> geo[str(rows[i].PostalCode)] ] >>

\* The HTTP exchanges of the call of get_lat_lon that apply makes for row i
\* (line 34): one GET (line 19), answered by the service as it is then.
Exchanges(rows, i) ==
    << [ searchVal |-> str(rows[i].PostalCode),
         response  |-> geo[str(rows[i].PostalCode)] ] >>

\* One row of the frame load_sheet returns: the sheet's row under its pandas
\* index label, Event Date converted, Latitude and Longitude added.
LoadedRow(rows, i) ==
    LET ll == get_lat_lon(rows[i].PostalCode).value
    IN  [ index      |-> i - 1,
          EventDate  |-> to_datetime(rows[i].EventDate),
          PostalCode |-> rows[i].PostalCode,
          Attendance |-> rows[i].Attendance,
          Latitude   |-> ll[1],
          Longitude  |-> ll[2] ]

\* load_sheet up to its first request: the sheet as read and the frame to
\* geocode, or the exception raised before any request.  A sheet without
\* rows makes zip(*...) yield nothing, and the unpacking into two columns
\* raises ValueError.
load_sheet(sheet_name) ==
    LET sheet == read_excel(sheet_name)
        error == IF ~Has(sheet, "Event Date") THEN Raise(32, "KeyError")
                 ELSE IF ~Has(sheet, "Postal Code") THEN Raise(34, "KeyError")
                 ELSE IF Len(sheet.rows) = 0 THEN Raise(34, "ValueError")
                 ELSE NoError
    IN  [ error |-> error,
          sheet |-> sheet,
          df    |-> IF error # NoError THEN EmptyFrame
                    ELSE [ columns |-> sheet.columns,
                           rows    |-> <<>>,
                           dtype   |-> AttendanceDtype(sheet.rows) ] ]

-----------------------------------------------------------------------------
(* update_dashboard *)

\* Python truthiness of a date picker value: None is false, a date string true.
Truthy(date) == date # None

\* Variant of InRange: the end of the range is exclusive.
InRange_exclusive(row, start_date, end_date) ==
    /\ row.EventDate # NaT
    /\ row.EventDate[1] >= to_datetime(start_date)[1]
    /\ row.EventDate[1] < to_datetime(end_date)[1]

\* Variant of InRange: a row without a date passes the filter.
InRange_nat(row, start_date, end_date) ==
    \/ row.EventDate = NaT
    \/ /\ row.EventDate[1] >= to_datetime(start_date)[1]
       /\ row.EventDate[1] <= to_datetime(end_date)[1]

\* (df["Event Date"] >= start_date) & (df["Event Date"] <= end_date), with
\* start_date and end_date converted by pd.to_datetime: a comparison with
\* NaT is False.
InRange(row, start_date, end_date) ==
    /\ row.EventDate # NaT
    /\ row.EventDate[1] >= to_datetime(start_date)[1]
    /\ row.EventDate[1] <= to_datetime(end_date)[1]

\* Variant of DateFilter: a bound that is set filters on its own.
DateFilter_either(rows, start_date, end_date) ==
    LET Keep(row) ==
            /\ row.EventDate # NaT
            /\ Truthy(start_date) => row.EventDate[1] >= to_datetime(start_date)[1]
            /\ Truthy(end_date) => row.EventDate[1] <= to_datetime(end_date)[1]
    IN  IF Truthy(start_date) \/ Truthy(end_date)
        THEN SelectSeq(rows, Keep)
        ELSE rows

\* Lines 141-145: the rows kept by the date filter.
DateFilter(rows, start_date, end_date) ==
    IF Truthy(start_date) /\ Truthy(end_date)
    THEN LET Keep(row) == InRange(row, start_date, end_date)
         IN  SelectSeq(rows, Keep)
    ELSE rows

\* Series.sum(): NaN is skipped.
RECURSIVE Sum(_)
Sum(values) ==
    IF values = <<>> THEN 0
    ELSE (IF Head(values) = NaN THEN 0 ELSE Head(values)[1]) + Sum(Tail(values))

\* Variant of Count: every row counts as a registrant.
Count_rows(values) == Len(values)

\* Series.count(): the number of values that are not NaN.
Count(values) == Cardinality({i \in DOMAIN values : values[i] # NaN})

\* IEEE 754 binary64, as far as lines 152 and 156 need it.  A double is
\* [neg, m, e]: (-1)^neg * m * 2^e, with m the 53 bits of the significand,
\* most significant first (<<>> for zero).  Long carries and remainders are
\* worked in chunks of bits that fit a machine integer.
Zero == [neg |-> FALSE, m |-> <<>>, e |-> 0]

\* The w low bits of n >= 0, most significant first.
Bits(n, w) == [i \in 1 .. w |-> (n \div 2^(w - i)) % 2]

\* The number a bit sequence of at most 31 bits writes.
RECURSIVE ToInt(_)
ToInt(bits) ==
    LET len == Len(bits)
        half == len \div 2
    IN  IF len = 0 THEN 0
        ELSE IF len = 1 THEN bits[1]
        ELSE ToInt(SubSeq(bits, 1, half)) * 2^(len - half)
             + ToInt(SubSeq(bits, half + 1, len))

Zeros(k) == [i \in 1 .. k |-> 0]

LeadingZeros(bits) ==
    IF \A i \in DOMAIN bits : bits[i] = 0 THEN Len(bits)
    ELSE (CHOOSE i \in DOMAIN bits :
              bits[i] = 1 /\ \A j \in 1 .. i - 1 : bits[j] = 0) - 1

Strip(bits) == SubSeq(bits, LeadingZeros(bits) + 1, Len(bits))

\* bits + 1, for bits that are not all ones.
Increment(bits) ==
    LET len == Len(bits)
        z == CHOOSE i \in DOMAIN bits :
                 bits[i] = 0 /\ \A j \in i + 1 .. len : bits[j] = 1
    IN  [i \in DOMAIN bits |-> IF i < z THEN bits[i] ELSE IF i = z THEN 1 ELSE 0]

\* The first 11 * k bits of the binary fraction r / d (0 <= r < d < 2^20),
\* eleven at a time, and the remainder left after them.
RECURSIVE FracBits(_, _, _)
FracBits(r, d, k) ==
    IF k = 0 THEN <<>>
    ELSE Bits((r * 2048) \div d, 11) \o FracBits((r * 2048) % d, d, k - 1)

RECURSIVE FracRem(_, _, _)
FracRem(r, d, k) == IF k = 0 THEN r ELSE FracRem((r * 2048) % d, d, k - 1)

\* bits * c + carry for a small c, twenty bits at a time from the low end.
RECURSIVE MulSmall(_, _, _)
MulSmall(bits, c, carry) ==
    LET len == Len(bits)
        k == IF len < 20 THEN len ELSE 20
        t == ToInt(SubSeq(bits, len - k + 1, len)) * c + carry
    IN  IF len = 0 THEN Strip(Bits(carry, 31))
        ELSE MulSmall(SubSeq(bits, 1, len - k), c, t \div 2^k) \o Bits(t % 2^k, k)

\* Round to nearest, ties to even: the double nearest to bits * 2^exp, where
\* bits starts with a one and sticky says that a nonzero tail was cut off.
RoundToDouble(neg, bits, exp, sticky) ==
    LET len == Len(bits)
        head == SubSeq(bits, 1, 53)
        rest == sticky \/ \E i \in 55 .. len : bits[i] = 1
        up == bits[54] = 1 /\ (rest \/ head[53] = 1)
    IN  IF len <= 53
        THEN [neg |-> neg, m |-> bits \o Zeros(53 - len), e |-> exp - (53 - len)]
        ELSE IF ~up
        THEN [neg |-> neg, m |-> head, e |-> exp + (len - 53)]
        ELSE IF \A i \in 1 .. 53 : head[i] = 1
        THEN [neg |-> neg, m |-> <<1>> \o Zeros(52), e |-> exp + (len - 53) + 1]
        ELSE [neg |-> neg, m |-> Increment(head), e |-> exp + (len - 53)]

Magnitude(n) == IF n < 0 THEN 0 - n ELSE n

\* n / d of line 152: Python's true division of two integers, correctly
\* rounded (0 < d < 2^20, the rows an Excel sheet can hold).
TrueDiv(n, d) ==
    LET a == Magnitude(n)
        sig == Strip(Bits(a \div d, 31) \o FracBits(a % d, d, 8))
    IN  IF n = 0 THEN Zero
        ELSE RoundToDouble(n < 0, sig, 0 - 88, FracRem(a % d, d, 8) # 0)

\* x * 100 of line 152: one more rounding.
Times100(x) ==
    IF x.m = <<>> THEN x
    ELSE RoundToDouble(x.neg, MulSmall(x.m, 100, 0), x.e, FALSE)

\* f"{x:.2f}" of line 156: the exact binary value of x rounded to hundredths,
\* ties to even, the sign kept ("-0.00" for a small negative rate).
Format2f(x) ==
    LET t == MulSmall(x.m, 100, 0)
        intlen == Len(t) + x.e
        int == IF intlen <= 0 THEN 0
               ELSE IF x.e >= 0 THEN ToInt(t \o Zeros(x.e))
               ELSE ToInt(SubSeq(t, 1, intlen))
        frac == IF x.e >= 0 THEN <<>>
                ELSE IF intlen <= 0 THEN Zeros(0 - intlen) \o t
                ELSE SubSeq(t, intlen + 1, Len(t))
        up == /\ frac # <<>>
              /\ frac[1] = 1
              /\ (int % 2 = 1 \/ \E i \in 2 .. Len(frac) : frac[i] = 1)
    IN  [minus |-> x.neg, hundredths |-> IF up THEN int + 1 ELSE int]

\* Lines 150-157: the attendance cards.  total_attendance is shown as
\* Python prints the sum (an int64 or a float64), attrition_rate with two
\* decimals: a sign and hundredths of a percent.  Without registrants the
\* rate is the integer 0, which the format prints as it prints 0.0.
AttendanceRow(rows, dtype) ==
    LET attendance == [i \in 1 .. Len(rows) |-> rows[i].Attendance]
        total_attendance == Sum(attendance)
        total_registrants == Count(attendance)
        attrition_rate ==
            IF total_registrants > 0
            THEN Times100(TrueDiv(total_registrants - total_attendance,
                                  total_registrants))
            ELSE Zero
    IN  [ total_attendance |-> [value |-> total_attendance, dtype |-> dtype],
          attrition_rate |-> Format2f(attrition_rate) ]

\* Variant of Feature: the coordinates in the order [latitude, longitude].
Feature_latlon(row) ==
    [ type |-> "Feature",
      geometry |-> [ type |-> "Point",
                     coordinates |-> <<row.Latitude, row.Longitude>> ] ]

\* Lines 179-188: one GeoJSON point per row of the frame.
Feature(row) ==
    [ type |-> "Feature",
      geometry |-> [ type |-> "Point",
                     coordinates |-> <<row.Longitude, row.Latitude>> ] ]

Heatmap(rows) == [i \in 1 .. Len(rows) |-> Feature(rows[i])]

\* Variant of FirstMissing: only the columns read by name before the charts
\* are built are missed.
FirstMissing_lenient(frame) ==
    LET missing == {k \in 1 .. 8 : ~Has(frame, Columns[k])}
    IN  IF missing = {} THEN 0
        ELSE CHOOSE k \in missing : \A j \in missing : k <= j

\* The first column, in the order the code reads them, that the frame lacks
\* (0: none).
FirstMissing(frame) ==
    LET missing == {k \in DOMAIN Columns : ~Has(frame, Columns[k])}
    IN  IF missing = {} THEN 0
        ELSE CHOOSE k \in missing : \A j \in missing : k <= j

NoOutputs == <<>>

\* update_dashboard from line 141 on, with the frame load_sheet returned:
\* the 13 outputs, or the exception that ends the callback.
update_dashboard(df, start_date, end_date) ==
    LET rows == DateFilter(df.rows, start_date, end_date)
        k    == FirstMissing(df)
    IN  IF k # 0
        THEN [error |-> FirstRead[k], outputs |-> NoOutputs]
        ELSE [error |-> NoError,
              outputs |-> Some(
                  [ attendance_row |-> AttendanceRow(rows, df.dtype),
                    figures        |-> rows,
                    heatmap        |-> Heatmap(rows),
                    column_options |-> df.columns,
                    data_table     |-> "" ])]

-----------------------------------------------------------------------------
(* The state machine *)

Call(sheet_name, start_date, end_date) ==
    [sheet_name |-> sheet_name, start_date |-> start_date, end_date |-> end_date]

\* What Dash makes of the end of a callback: the outputs are sent to the
\* browser; an exception gives no output, and with debug=True the dev tools
\* display it in the browser.
Ended(r) ==
    [ error   |-> r.error,
      outputs |-> r.outputs,
      message |-> IF r.error # NoError /\ debug THEN Some(r.error) ELSE None ]

Failed(error) == Ended([error |-> error, outputs |-> NoOutputs])

\* A server thread that runs no invocation yet.
Idle ==
    [ pc       |-> "idle",
      call     |-> None,
      sheet    |-> [columns |-> <<>>, rows |-> <<>>],
      df       |-> EmptyFrame,
      requests |-> <<>>,
      result   |-> None ]

\* An invocation at its start: load_sheet is about to read the file
\* (line 29).
Invoked(sheet_name, start_date, end_date) ==
    [Idle EXCEPT !.pc = "line 29",
                 !.call = Some(Call(sheet_name, start_date, end_date))]

\* An invocation after the file was read: at its first request (line 19),
\* or ended by an exception of load_sheet.
Loaded(me) ==
    LET loaded == load_sheet(me.call[1].sheet_name)
    IN  IF loaded.error = NoError
        THEN [me EXCEPT !.pc = "line 19", !.sheet = loaded.sheet, !.df = loaded.df]
        ELSE [me EXCEPT !.pc = "done", !.sheet = loaded.sheet, !.df = loaded.df,
                        !.result = Some(Failed(loaded.error))]

\* An invocation after the answer to its pending request: an answer that
\* raises ends the invocation; otherwise the row is added to the frame and
\* the next request is pending, or, after the last row, load_sheet returns
\* (line 35) and update_dashboard runs to its end.
Answered(me) ==
    LET rows == me.sheet.rows
        i    == Len(me.df.rows) + 1
        log  == me.requests \o Exchanges(rows, i)
        got  == Append(me.df.rows, LoadedRow(rows, i))
        df   == [ columns |-> me.sheet.columns \o <<"Latitude", "Longitude">>,
                  rows    |-> got,
                  dtype   |-> me.df.dtype ]
        raised == get_lat_lon(rows[i].PostalCode).error
    IN  IF raised # NoError
        THEN [me EXCEPT !.pc = "done", !.requests = log,
                        !.result = Some(Failed(raised))]
        ELSE IF i < Len(rows)
        THEN [me EXCEPT !.df.rows = got, !.requests = log]
        ELSE [me EXCEPT !.pc = "done", !.df = df, !.requests = log,
                        !.result = Some(Ended(update_dashboard(df,
                                                               me.call[1].start_date,
                                                               me.call[1].end_date)))]

\* Dash invokes the callback on a free thread with the current values of
\* its three inputs.
UpdateDashboard(t, sheet_name, start_date, end_date) ==
    /\ inv[t].pc \in {"idle", "done"}
    /\ inv' = [inv EXCEPT ![t] = Invoked(sheet_name, start_date, end_date)]
    /\ UNCHANGED <<workbook, xls, geo, debug>>

\* pd.read_excel returns (line 29), and load_sheet runs to its first
\* request or to its exception.
ReadExcel(t) ==
    /\ inv[t].pc = "line 29"
    /\ inv' = [inv EXCEPT ![t] = Loaded(inv[t])]
    /\ UNCHANGED <<workbook, xls, geo, debug>>

\* The service answers the pending request of an invocation (line 19).
GetLatLon(t) ==
    /\ inv[t].pc = "line 19"
    /\ inv' = [inv EXCEPT ![t] = Answered(inv[t])]
    /\ UNCHANGED <<workbook, xls, geo, debug>>

\* The service starts to answer differently.
ServiceChanges(services) ==
    /\ geo' \in services \ {geo}
    /\ UNCHANGED <<workbook, xls, debug, inv, seen>>

\* KS.xlsx is saved with other contents of its sheets.
WorkbookChanges(sheets) ==
    /\ workbook' \in [DOMAIN workbook -> sheets] \ {workbook}
    /\ UNCHANGED <<xls, geo, debug, inv, seen>>

\* The observer of the invocation of thread t.  At its start: whether it is
\* the first invocation of the run, and whether the thread's previous
\* invocation had selected another sheet.  When it reads the file: the
\* sheet as the file has it then.
Observe(t) ==
    seen' = [seen EXCEPT ![t] =
                IF inv[t].pc \in {"idle", "done"}
                THEN [ file     |-> None,
                       first    |-> \A u \in DOMAIN inv : inv[u].pc = "idle",
                       switched |-> /\ inv[t].pc = "done"
                                    /\ inv[t].call[1].sheet_name
                                           # inv'[t].call[1].sheet_name ]
                ELSE IF inv[t].pc = "line 29"
                THEN [@ EXCEPT !.file = Some(workbook[inv[t].call[1].sheet_name])]
                ELSE @]

Unseen == [file |-> None, first |-> FALSE, switched |-> FALSE]

SeqsUpTo(S, n) == UNION {[1 .. k -> S] : k \in 0 .. n}

RawRows(cells, postals, atts) ==
    [EventDate : cells, PostalCode : postals, Attendance : atts]

Sheets(columnsets, rowset, n) ==
    [columns : columnsets, rows : SeqsUpTo(rowset, n)]

\* The app after import: the ExcelFile holds the workbook as it is then,
\* and no callback has been invoked.
InitWorld(names, sheets, geos, threads, debugs) ==
    /\ workbook \in [names -> sheets]
    /\ xls = workbook
    /\ geo \in geos
    /\ debug \in debugs
    /\ inv = [t \in threads |-> Idle]
    /\ seen = [t \in threads |-> Unseen]

AllCells == {DateCell(d) : d \in Dates} \cup {TextCell, BlankCell}

\* The strings the service is asked for.
SearchVals == {str(p) : p \in PostalCodes}

FixedGeo ==
    [searchVal \in SearchVals |->
        IF searchVal = "18956" THEN [found |-> 1, results |-> <<Coord(11, 21)>>]
        ELSE [found |-> 0, results |-> <<>>]]

\* A service that gives every request the same answer.
Always(answer) == [searchVal \in SearchVals |-> answer]

\* A range of the date picker that is unset, half set or set to day 1.
FewDates == {None, IsoDate(1)}

\* The sheet selector offers sheet_names (lines 13 and 64).
Callback(ranges) ==
    \E t \in DOMAIN inv, sheet_name \in DOMAIN xls, range \in ranges :
        UpdateDashboard(t, sheet_name, range[1], range[2])

Read == \E t \in DOMAIN inv : ReadExcel(t)

Reply == \E t \in DOMAIN inv : GetLatLon(t)

\* Spec: one sheet with every column; every kind of Event Date cell; one
\* invocation at a time.
Init ==
    InitWorld({"S1"},
              Sheets({Columns},
                     RawRows(AllCells, {18956}, {Some(1)}),
                     MaxRows),
              {FixedGeo}, {"T1"}, {TRUE})

Next == (Callback(OptDates \X OptDates) \/ Read \/ Reply) /\ UNCHANGED seen

Spec == Init /\ [][Next]_vars

\* SpecStats: the Attendance cells vary (blank, fewer or more attendees
\* than registrants), around a date range.
InitStats ==
    InitWorld({"S1"},
              Sheets({Columns},
                     RawRows({DateCell(1), DateCell(2)}, {18956},
                             {NaN, Some(0), Some(1), Some(2)}),
                     MaxRows),
              {FixedGeo}, {"T1"}, {TRUE})

SpecStats == InitStats /\ [][Next]_vars

\* SpecGeo: the postal codes vary, and the responses of the geocoding
\* service change while invocations wait for them.
Services == [SearchVals -> Responses]

InitGeo ==
    InitWorld({"S1"},
              Sheets({Columns},
                     RawRows({DateCell(1), TextCell}, PostalCodes, {Some(1)}),
                     MaxRows),
              Services, {"T1"}, {TRUE})

NextGeo ==
    (Callback(FewDates \X FewDates) \/ Read \/ Reply \/ ServiceChanges(Services))
        /\ UNCHANGED seen

SpecGeo == InitGeo /\ [][NextGeo]_vars

\* The columns of a sheet that lacks some.
Without(missing) ==
    LET Keep(column) == column \notin missing
    IN  SelectSeq(Columns, Keep)

\* SpecService: the postal codes vary, and the service finds, finds
\* nothing, answers without "found" or does not answer, changing while
\* invocations wait; the sheet has every column, or lacks one that
\* load_sheet or update_dashboard reads.
ServiceColumns == {Columns, Without({"Postal Code"}), Without({"Marketing"})}

FailingServices ==
    { FixedGeo, Always([found |-> 0, results |-> <<>>]),
      Always(ErrorBody), Always(NoResponse) }

InitService ==
    InitWorld({"S1"},
              Sheets(ServiceColumns,
                     RawRows({DateCell(1), DateCell(2)}, PostalCodes, {Some(1)}),
                     MaxRows),
              FailingServices, {"T1"}, {TRUE})

NextService ==
    (Callback(FewDates \X FewDates) \/ Read \/ Reply
        \/ ServiceChanges(FailingServices)) /\ UNCHANGED seen

SpecService == InitService /\ [][NextService]_vars

\* SpecColumns: the sheet lacks up to MaxMissing of the columns the callback
\* reads; the app runs as the script starts it (debug=True) or is served
\* without debug through server (line 39).
ColumnSets ==
    {Without(missing) : missing \in
        {m \in SUBSET Range(Columns) : Cardinality(m) <= MaxMissing}}

InitColumns ==
    InitWorld({"S1"},
              Sheets(ColumnSets,
                     RawRows({DateCell(1), DateCell(2)}, {18956}, {Some(1)}),
                     MaxRows),
              {FixedGeo}, {"T1"}, BOOLEAN)

SpecColumns == InitColumns /\ [][Next]_vars

\* SpecSwitch: two sheets whose contents are rewritten while the app runs,
\* a service whose answers change, two server threads whose invocations
\* overlap, and the observer.
SwitchRow(day, postal, att) ==
    [EventDate |-> DateCell(day), PostalCode |-> postal, Attendance |-> Some(att)]

SwitchSheets ==
    { [columns |-> Columns,
       rows    |-> <<SwitchRow(1, 18956, 1), SwitchRow(2, 560123, 1)>>],
      [columns |-> Columns, rows |-> <<SwitchRow(2, 560123, 0)>>] }

SwitchServices == {FixedGeo, Always([found |-> 0, results |-> <<>>])}

SwitchRanges == {<<None, None>>, <<IsoDate(1), IsoDate(1)>>}

InitSwitch ==
    InitWorld({"S1", "S2"}, SwitchSheets, SwitchServices, {"T1", "T2"}, {TRUE})

NextSwitch ==
    \/ \E t \in DOMAIN inv, sheet_name \in DOMAIN xls, range \in SwitchRanges :
           UpdateDashboard(t, sheet_name, range[1], range[2]) /\ Observe(t)
    \/ \E t \in DOMAIN inv : ReadExcel(t) /\ Observe(t)
    \/ \E t \in DOMAIN inv : GetLatLon(t) /\ Observe(t)
    \/ WorkbookChanges(SwitchSheets)
    \/ ServiceChanges(SwitchServices)

SpecSwitch == InitSwitch /\ [][NextSwitch]_vars

-----------------------------------------------------------------------------
(* Properties *)

\* The thread has been given an invocation; the invocation has read the
\* file; the invocation has ended.
Called(t) == inv[t].pc # "idle"

HasRead(t) == inv[t].pc \in {"line 19", "done"}

Done(t) == inv[t].pc = "done"

CallOf(t) == inv[t].call[1]

\* The sheet the invocation selected, as it is in the workbook.
SheetOf(t) == workbook[CallOf(t).sheet_name]

\* The invocation returned its outputs.
Returned(t) == Done(t) /\ inv[t].result[1].error = NoError

OutputsOf(t) == inv[t].result[1].outputs[1]

RangeActive(t) == CallOf(t).start_date # None /\ CallOf(t).end_date # None

Abs(x) == IF x < 0 THEN 0 - x ELSE x

SearchVal(row) == IF row.PostalCode = 18956 THEN "18956" ELSE "560123"

\* The row has the coordinates the response stands for.
Located(row, response) ==
    IF response.found > 0
    THEN /\ row.Latitude = Some(response.results[1].LATITUDE.text)
         /\ row.Longitude = Some(response.results[1].LONGITUDE.text)
    ELSE /\ row.Latitude = None
         /\ row.Longitude = None

\* The sum of the Attendance values of the rows at the positions in I.
RECURSIVE AttendanceOver(_, _)
AttendanceOver(rows, I) ==
    IF I = {} THEN 0
    ELSE LET i == CHOOSE j \in I : TRUE
             a == rows[i].Attendance
         IN  (IF a = NaN THEN 0 ELSE a[1]) + AttendanceOver(rows, I \ {i})

\* C1: every row of the frame load_sheet builds has Latitude and Longitude
\* both present or both absent; they are present exactly when the response
\* to the request made for the row, a request for the row's postal code, has
\* found > 0, and are then the first result's.
C1_CoordinatesFollowResponse ==
    \A t \in DOMAIN inv :
        \A i \in DOMAIN inv[t].df.rows :
            LET row == inv[t].df.rows[i]
            IN  /\ i <= Len(inv[t].requests)
                /\ inv[t].requests[i].searchVal = SearchVal(row)
                /\ (row.Latitude = None) <=> (row.Longitude = None)
                /\ (row.Latitude # None) <=> (inv[t].requests[i].response.found > 0)
                /\ Located(row, inv[t].requests[i].response)

C1_Witness ==
    \E t \in DOMAIN inv :
        /\ Returned(t)
        /\ Len(inv[t].df.rows) = 2
        /\ inv[t].df.rows[1].PostalCode = inv[t].df.rows[2].PostalCode
        /\ inv[t].requests[1].response.found = 2
        /\ inv[t].requests[2].response.found = 0
        /\ inv[t].df.rows[1].Latitude = Some(12)
        /\ inv[t].df.rows[2].Latitude = None

\* C2: with a date range, the rows behind the statistics, the charts and
\* the map are exactly the loaded rows dated within [start_date, end_date],
\* both ends included.
C2_DateRangeFilter ==
    \A t \in DOMAIN inv :
        (Returned(t) /\ RangeActive(t)) =>
            LET shown == OutputsOf(t).figures
                source == SheetOf(t).rows
                expected ==
                    {i \in DOMAIN source :
                        /\ source[i].EventDate.kind = "datetime"
                        /\ CallOf(t).start_date.day <= source[i].EventDate.day
                        /\ source[i].EventDate.day <= CallOf(t).end_date.day}
            IN  /\ {shown[j].index + 1 : j \in DOMAIN shown} = expected
                /\ Len(shown) = Cardinality(expected)
                /\ \A j \in DOMAIN shown :
                       shown[j] = inv[t].df.rows[shown[j].index + 1]
                /\ Len(OutputsOf(t).heatmap) = Cardinality(expected)
                /\ OutputsOf(t).attendance_row.total_attendance.value
                       = AttendanceOver(source, expected)

C2_Witness ==
    \E t \in DOMAIN inv :
        /\ Returned(t)
        /\ RangeActive(t)
        /\ CallOf(t).start_date.day < CallOf(t).end_date.day
        /\ \E j \in DOMAIN OutputsOf(t).figures :
               OutputsOf(t).figures[j].EventDate = Some(CallOf(t).end_date.day)
        /\ \E i \in DOMAIN inv[t].df.rows :
               /\ inv[t].df.rows[i].EventDate # NaT
               /\ inv[t].df.rows[i].EventDate[1] < CallOf(t).start_date.day
        /\ Len(OutputsOf(t).figures) = 1

\* C3: over the rows left by the date filter, the total attendance is the
\* sum of the Attendance values, and the attrition rate shown is the
\* percentage (registrants - attendees) / registrants to within half a
\* hundredth, with a minus sign exactly when attendees exceed registrants,
\* where registrants counts the rows with an Attendance value; without
\* registrants the rate shown is 0.00.
C3_AttendanceStats ==
    \A t \in DOMAIN inv :
        Returned(t) =>
            LET shown == OutputsOf(t).figures
                present == {j \in DOMAIN shown : shown[j].Attendance # NaN}
                attendees == AttendanceOver(SheetOf(t).rows,
                                            {shown[j].index + 1 : j \in present})
                registrants == Cardinality(present)
                rate == OutputsOf(t).attendance_row.attrition_rate
                value == IF rate.minus THEN 0 - rate.hundredths ELSE rate.hundredths
            IN  /\ OutputsOf(t).attendance_row.total_attendance.value = attendees
                /\ IF registrants = 0
                   THEN rate = [minus |-> FALSE, hundredths |-> 0]
                   ELSE /\ rate.minus <=> attendees > registrants
                        /\ 2 * Abs(value * registrants
                                   - (registrants - attendees) * 10000) <= registrants

C3_Witness ==
    \E t \in DOMAIN inv :
        /\ Returned(t)
        /\ RangeActive(t)
        /\ Len(OutputsOf(t).figures) = 2
        /\ \E j \in DOMAIN OutputsOf(t).figures :
               OutputsOf(t).figures[j].Attendance = NaN
        /\ \E j \in DOMAIN OutputsOf(t).figures :
               OutputsOf(t).figures[j].Attendance = Some(0)
        /\ OutputsOf(t).attendance_row.attrition_rate
               = [minus |-> FALSE, hundredths |-> 10000]
        /\ OutputsOf(t).attendance_row.total_attendance.value = 0

\* C4, as stated: the number of geocoding requests of an invocation is the
\* number of rows displayed after the date filter.
C4_OncePerDisplayedRow ==
    \A t \in DOMAIN inv :
        Returned(t) => Len(inv[t].requests) = Len(OutputsOf(t).figures)

\* C4, amended: the requests of an invocation are for the rows of the
\* selected sheet, in row order, one per row and none twice: the i-th
\* request asks for the postal code of the i-th row, and every row loaded
\* has its one request.  No request follows one that failed, which ends the
\* invocation; load_sheet issues none when it fails before its first row.
\* An invocation that returns has requested every row of the sheet, whether
\* or not the date filter keeps the row.
C4_OncePerLoadedRow ==
    \A t \in DOMAIN inv :
        Called(t) =>
            LET log == inv[t].requests
                WellFormed(i) == "found" \in DOMAIN log[i].response
            IN  /\ Len(log) <= Len(SheetOf(t).rows)
                /\ \A i \in DOMAIN log :
                       /\ log[i].searchVal = SearchVal(SheetOf(t).rows[i])
                       /\ i < Len(log) => WellFormed(i)
                /\ Len(inv[t].df.rows)
                       = Cardinality({i \in DOMAIN log : WellFormed(i)})
                /\ (\E i \in DOMAIN log : ~WellFormed(i)) =>
                       /\ Done(t)
                       /\ inv[t].result[1].error # NoError
                       /\ inv[t].result[1].outputs = NoOutputs
                /\ (~Has(SheetOf(t), "Event Date") \/ ~Has(SheetOf(t), "Postal Code")
                        \/ SheetOf(t).rows = <<>>) => log = <<>>
                /\ Returned(t) => Len(log) = Len(SheetOf(t).rows)

C4_Witness ==
    \E t \in DOMAIN inv :
        /\ Returned(t)
        /\ RangeActive(t)
        /\ Len(inv[t].requests) = 2
        /\ inv[t].requests[1].searchVal = "560123"
        /\ inv[t].requests[1].response.found = 0
        /\ inv[t].requests[2].searchVal = "18956"
        /\ Len(OutputsOf(t).figures) = 1

\* C5: what an invocation returns depends only on its arguments, on the
\* sheet as the file has it when the invocation reads it, and on the
\* responses to its own requests.  The frame it loads is that sheet, row by
\* row, with the columns of that sheet, and its requests are for the postal
\* codes of that sheet: nothing of a sheet selected before, of an earlier
\* content of the file or of another thread's invocation is in it.  Two
\* invocations with the same arguments that read the same sheet contents
\* and get the same responses return the same outputs, whether one is the
\* first of the run and the other follows any interactions.
C5_SameInputsSameOutputs ==
    \A t \in DOMAIN inv :
        HasRead(t) =>
            LET file == seen[t].file[1]
            IN  /\ \A i \in DOMAIN inv[t].df.rows :
                       /\ inv[t].df.rows[i].index = i - 1
                       /\ inv[t].df.rows[i].PostalCode = file.rows[i].PostalCode
                       /\ inv[t].df.rows[i].Attendance = file.rows[i].Attendance
                       /\ (inv[t].df.rows[i].EventDate = NaT)
                              <=> (file.rows[i].EventDate.kind # "datetime")
                       /\ inv[t].df.rows[i].EventDate # NaT =>
                              inv[t].df.rows[i].EventDate[1] = file.rows[i].EventDate.day
                /\ \A i \in DOMAIN inv[t].requests :
                       inv[t].requests[i].searchVal = SearchVal(file.rows[i])
                /\ Returned(t) =>
                       /\ Len(inv[t].df.rows) = Len(file.rows)
                       /\ OutputsOf(t).column_options
                              = file.columns \o <<"Latitude", "Longitude">>
                       /\ \A j \in DOMAIN OutputsOf(t).figures :
                              OutputsOf(t).figures[j]
                                  = inv[t].df.rows[OutputsOf(t).figures[j].index + 1]
                /\ \A u \in DOMAIN inv :
                       ( /\ Done(t) /\ Done(u)
                         /\ CallOf(u) = CallOf(t)
                         /\ seen[u].file = seen[t].file
                         /\ [i \in DOMAIN inv[u].requests |-> inv[u].requests[i].response]
                                = [i \in DOMAIN inv[t].requests |-> inv[t].requests[i].response] )
                       => /\ inv[u].result = inv[t].result
                          /\ inv[u].requests = inv[t].requests

C5_Witness ==
    \E t, u \in DOMAIN inv :
        /\ t # u
        /\ Returned(t) /\ Returned(u)
        /\ seen[u].first
        /\ seen[t].switched
        /\ CallOf(t) = CallOf(u)
        /\ seen[t].file = seen[u].file
        /\ inv[t].requests = inv[u].requests
        /\ inv[t].result = inv[u].result
        /\ seen[t].file[1] # xls[CallOf(t).sheet_name]
        /\ workbook[CallOf(t).sheet_name] # seen[t].file[1]
        /\ Len(inv[t].requests) = 2
        /\ Len(OutputsOf(t).figures) = 1

\* C6: a row whose Event Date cell is not a date does not make the callback
\* fail; it is in the loaded frame at its position with Event Date NaT, its
\* postal code and attendance as in the sheet, and its coordinates those of
\* the response to its request.
C6_MalformedDateKept ==
    \A t \in DOMAIN inv :
        (Done(t) /\ \E i \in DOMAIN SheetOf(t).rows :
                        SheetOf(t).rows[i].EventDate.kind # "datetime") =>
            /\ Returned(t)
            /\ Len(inv[t].df.rows) = Len(SheetOf(t).rows)
            /\ \A i \in DOMAIN SheetOf(t).rows :
                   SheetOf(t).rows[i].EventDate.kind # "datetime" =>
                       /\ inv[t].df.rows[i].EventDate = NaT
                       /\ inv[t].df.rows[i].index = i - 1
                       /\ inv[t].df.rows[i].PostalCode = SheetOf(t).rows[i].PostalCode
                       /\ inv[t].df.rows[i].Attendance = SheetOf(t).rows[i].Attendance
                       /\ Located(inv[t].df.rows[i], inv[t].requests[i].response)

C6_Witness ==
    \E t \in DOMAIN inv :
        /\ Returned(t)
        /\ RangeActive(t)
        /\ Len(inv[t].df.rows) = 2
        /\ inv[t].df.rows[1].EventDate = NaT
        /\ inv[t].df.rows[1].Latitude # None
        /\ inv[t].df.rows[2].EventDate # NaT

C8_HalfRangeDoesNotFilter ==
    \A t \in DOMAIN inv :
        (Returned(t) /\ ~RangeActive(t)) =>
            /\ OutputsOf(t).figures = inv[t].df.rows
            /\ Len(OutputsOf(t).figures) = Len(SheetOf(t).rows)
            /\ Len(OutputsOf(t).heatmap) = Len(SheetOf(t).rows)
            /\ OutputsOf(t).attendance_row.total_attendance.value
                   = AttendanceOver(SheetOf(t).rows, DOMAIN SheetOf(t).rows)

C8_Witness ==
    \E t \in DOMAIN inv :
        /\ Returned(t)
        /\ CallOf(t).start_date # None
        /\ CallOf(t).end_date = None
        /\ \E j \in DOMAIN OutputsOf(t).figures :
               /\ OutputsOf(t).figures[j].EventDate # NaT
               /\ OutputsOf(t).figures[j].EventDate[1] < CallOf(t).start_date.day

\* C9: a row whose Event Date is NaT is in none of the outputs when a date
\* range is active, whatever the range, and in all of them when none is.
C9_NullDateRows ==
    \A t \in DOMAIN inv :
        Returned(t) =>
            LET shown == OutputsOf(t).figures
                nat == {i \in DOMAIN SheetOf(t).rows :
                           SheetOf(t).rows[i].EventDate.kind # "datetime"}
                shownNat == {j \in DOMAIN shown : shown[j].EventDate = NaT}
            IN  /\ Len(OutputsOf(t).heatmap) = Len(shown)
                /\ RangeActive(t) => shownNat = {}
                /\ ~RangeActive(t) =>
                       /\ {shown[j].index + 1 : j \in shownNat} = nat
                       /\ Cardinality(shownNat) = Cardinality(nat)

C9_Witness ==
    \E t \in DOMAIN inv :
        /\ Returned(t)
        /\ RangeActive(t)
        /\ \E i \in DOMAIN SheetOf(t).rows : SheetOf(t).rows[i].EventDate.kind = "text"
        /\ \E i \in DOMAIN SheetOf(t).rows : SheetOf(t).rows[i].EventDate.kind = "blank"
        /\ OutputsOf(t).figures = <<>>

\* C10: the map layer has one point per displayed row, in row order, with
\* coordinates [longitude, latitude] of the response to the row's request;
\* a row whose lookup found nothing is kept, with both coordinates absent.
C10_OneFeaturePerRow ==
    \A t \in DOMAIN inv :
        Returned(t) =>
            LET shown == OutputsOf(t).figures
                layer == OutputsOf(t).heatmap
            IN  /\ Len(layer) = Len(shown)
                /\ \A j, k \in DOMAIN shown : j < k => shown[j].index < shown[k].index
                /\ \A j \in DOMAIN shown :
                       LET response == inv[t].requests[shown[j].index + 1].response
                       IN  /\ shown[j] = inv[t].df.rows[shown[j].index + 1]
                           /\ layer[j].geometry.type = "Point"
                           /\ layer[j].geometry.coordinates =
                                  IF response.found > 0
                                  THEN << Some(response.results[1].LONGITUDE.text),
                                          Some(response.results[1].LATITUDE.text) >>
                                  ELSE << None, None >>

C10_Witness ==
    \E t \in DOMAIN inv :
        /\ Returned(t)
        /\ RangeActive(t)
        /\ Len(OutputsOf(t).heatmap) = 2
        /\ inv[t].df.rows[1].PostalCode = inv[t].df.rows[2].PostalCode
        /\ OutputsOf(t).heatmap[1].geometry.coordinates = << Some(21), Some(11) >>
        /\ OutputsOf(t).heatmap[2].geometry.coordinates = << None, None >>

=============================================================================
